---- MODULE Spec2Model ----
(***************************************************************************)
(* A model of src/pyweek17.py: the moon that orbits the earth, the cats    *)
(* flung by the catapult, the mice that home in on the moon, the collision *)
(* pass of Game.handle_collision and the tick of Game.update_state.        *)
(*                                                                         *)
(* Units.  The program computes with floats; the model computes with       *)
(* integers.  Lengths are lattice cells, bacon.timestep is a whole number  *)
(* of nominal steps (the 1/60. of Cat.on_tick is one step), and every      *)
(* program constant is given the model value stated beside it.  An angle   *)
(* is kept exactly, as the pair [tau, rad] that stands for                 *)
(*     (2*pi*tau + rad) / MOON_SECONDS_PER_ROTATION   radians:             *)
(* pi is irrational, so two such pairs name the same point of the orbit    *)
(* only if their rad parts are equal and their tau parts differ by whole   *)
(* turns.  A point of the orbit carries that exact angle beside its        *)
(* lattice cell, so equality of two moon positions is exact.               *)
(***************************************************************************)
EXTENDS Integers, Sequences, FiniteSets, TLC

\* ------------------------------------------------------------ bounds
MaxFrames == 3          \* Game.on_tick calls in one run
MaxTicks == 10          \* update_state calls in one run
MaxLaunches == 2        \* cats created in one run
MaxSpawns == 4          \* mice created in one run
SiegeFrames == 5        \* the same three, in the runs where the player never shoots
SiegeTicks == 36
SiegeSpawns == 12
MaxDraws == 2            \* values of random.uniform tried for a spawn
SiegeDraws == 1
MaxLead == 3            \* lead times probed on future_position
MaxMoonSteps == 40      \* moon steps in the moon-only specification
EvictSlack == 1         \* the crowded runs start with MAX_CATS - EvictSlack .. MAX_CATS cats
CrowdFrames == 3        \* frames, ticks and launches of the crowded runs
CrowdTicks == 5
CrowdLaunches == 1
CrowdGap == 3           \* ticks between two launches before a crowded run
RadiusEarth == 1        \* textures['earth'].width / 2, in cells
RadiusMoon == 1         \* textures['moon'].width / 2
RadiusCat == 0          \* textures['cat'].width / 2   (less than CAT_ATTACK_RANGE)
RadiusMouse == 1        \* textures['mouse'].width / 2
ArmReach == 1           \* catapult_spoon.width - 25
GeomMax == 3            \* coordinates and radii probed on collides_with
VerletMax == 2          \* coordinates of the positions and velocities probed on verlet_step
MaxVerletSteps == 4     \* steps of one probed straight line
MaxOrbitTime == 14      \* simulated time of one probed orbit
GravMax == 2            \* how far from a body, in cells, force_of_gravity is probed
MaxLifetime == 420      \* the longest cat lifetime, in steps, a kill is priced for
MaxScreens == 2         \* the GameOverScreens, innermost first, that are followed to their end

\* ------------------------------------------------- program constants
WINDOW_WIDTH == 20
WINDOW_HEIGHT == 12
MOON_DISTANCE == 5
MOON_BUILT_DISTANCE == 6            \* moon = Moon(earth, 600)
MOUSE_SPEED == 1
MOUSE_SPAWN_COOLDOWN == 4
MOUSE_INITIAL_SPAWN_DELAY == 4
CAT_SPAWN_COOLDOWN == 4
CAT_ATTACK_RANGE == 1
MOON_SECONDS_PER_ROTATION == 12
MOUSE_DAMAGE == 10                  \* 0.1, in hundredths
CATAPULT_FIRE_TIME == 2
CLOUD_LIFETIME == 2
GAME_OVER_FADE == 2
GAME_OVER_FADETEXT == 1
GAME_OVER_AFTERFADE_WAIT == 1
NOMINAL_STEP == 1                   \* t = 1/60. in Cat.on_tick
FAST_FORWARD_STEPS == 8
MAX_CATS == 200
EVICT_COUNT == 10
TOTAL_STEPS == 100                  \* of simulate_launch
GRAVITY == 4                        \* the 10 * 1000^2 / 60^2 of force_of_gravity, in cells
SCORE_BASE == 5
SCORE_PER_SECOND == 3
SCORE_BONUS_CAP == 5
SCORE_BONUS_DELAY == 1
TICKS_PER_SECOND == 60
POWER_MIN == 1
POWER_MAX == 2
POWER_NEAR == 1
POWER_FAR == 7
moon_eated_states == <<100, 75, 50, 25, 15, 5>>
TimeSteps == {1, 2}                 \* values of bacon.timestep

\* ----------------------------------------------------------- vectors
vec2(x, y) == [x |-> x, y |-> y]
VAdd(a, b) == vec2(a.x + b.x, a.y + b.y)
VSub(a, b) == vec2(a.x - b.x, a.y - b.y)
VScale(k, a) == vec2(k * a.x, k * a.y)
Cell(p) == vec2(p.x, p.y)           \* the coordinates of a point, without its orbit angle

Abs(n) == IF n < 0 THEN -n ELSE n
Sgn(n) == IF n < 0 THEN -1 ELSE IF n > 0 THEN 1 ELSE 0
\* n / d rounded to the nearest integer, halves away from zero (d > 0)
RoundDiv(n, d) == Sgn(n) * ((2 * Abs(n) + d) \div (2 * d))

RECURSIVE SqrtSearch(_, _, _)
SqrtSearch(n, lo, hi) ==
    IF lo >= hi THEN lo
    ELSE LET mid == (lo + hi + 1) \div 2
         IN IF mid * mid <= n THEN SqrtSearch(n, mid, hi) ELSE SqrtSearch(n, lo, mid - 1)
\* 46340 is the largest root of a 32-bit integer
ISqrt(n) == SqrtSearch(n, 0, IF n < 46340 THEN n ELSE 46340)

LengthSq(v) == v.x * v.x + v.y * v.y
length(v) == ISqrt(LengthSq(v))             \* floor of the length, in cells
Length16(v) == ISqrt(256 * LengthSq(v))     \* the length in sixteenths of a cell
clamp(v, a, b) == IF (IF a > v THEN a ELSE v) < b THEN (IF a > v THEN a ELSE v) ELSE b
\* normalize(v) * k / 16, rounded to the lattice; normalize leaves the zero vector alone
Toward(v, k16) ==
    IF LengthSq(v) = 0 THEN vec2(0, 0)
    ELSE vec2(RoundDiv(v.x * k16, Length16(v)), RoundDiv(v.y * k16, Length16(v)))

\* ------------------------------------------------------------ angles
Angle(tau, rad) == [tau |-> tau, rad |-> rad]
AngleAdd(a, b) == Angle(a.tau + b.tau, a.rad + b.rad)
Turns(t) == Angle(t, 0)             \* 2 * math.pi * t / MOON_SECONDS_PER_ROTATION
Radians(t) == Angle(0, t)           \* t / MOON_SECONDS_PER_ROTATION
\* the slot, of MOON_SECONDS_PER_ROTATION to a turn, nearest to an angle (2*pi ~ 44/7)
Slot(a) == (a.tau + ((7 * a.rad + 22) \div 44)) % MOON_SECONDS_PER_ROTATION
\* 5*cos and 5*sin of the twelve slots
Cos5 == <<5, 4, 3, 0, -3, -4, -5, -4, -3, 0, 3, 4>>
Sin5 == <<0, 3, 4, 5, 4, 3, 0, -3, -4, -5, -4, -3>>
\* rotate(vec2(d, 0), angle): the lattice cell, and the exact point of the circle
rotate(d, a) ==
    [x |-> RoundDiv(d * Cos5[Slot(a) + 1], 5),
     y |-> RoundDiv(d * Sin5[Slot(a) + 1], 5),
     dist |-> Abs(d), tau |-> a.tau % MOON_SECONDS_PER_ROTATION, rad |-> a.rad]

earth == [pos |-> vec2(WINDOW_WIDTH \div 2, WINDOW_HEIGHT \div 2), radius |-> RadiusEarth]

\* ------------------------------------------------------- collisions
\* a collides_with that takes its own radius for the other's
collides_with_own_radius(self, thing) ==
    LET sum == self.radius + self.radius
    IN sum > 0 /\ LengthSq(VSub(self.pos, thing.pos)) < sum * sum

\* a collides_with for which circles that just touch collide
collides_with_touching(self, thing) ==
    LET sum == self.radius + thing.radius
    IN LengthSq(VSub(self.pos, thing.pos)) <= sum * sum

\* RoundSprite.collides_with: length(self.pos - thing.pos) < self.radius + thing.radius
collides_with(self, thing) ==
    LET sum == self.radius + thing.radius
    IN sum > 0 /\ LengthSq(VSub(self.pos, thing.pos)) < sum * sum

\* BoundedSphere.collides_with
sphere_collides_with(self, thing) ==
    LET sum == self.radius + thing.radius
    IN sum > 0 /\ LengthSq(VSub(self.pos, thing.pos)) < sum * sum

Body(pos, radius) == [pos |-> pos, radius |-> radius]

\* -------------------------------------------------------------- Moon
\* Moon.calc_position: earth.pos + rotate(vec2(MOON_DISTANCE, 0), angle)
calc_position(m, angle) ==
    LET r == rotate(MOON_DISTANCE, angle)
    IN [r EXCEPT !.x = earth.pos.x + r.x, !.y = earth.pos.y + r.y]

\* Moon.__init__(earth, distance)
Moon(distance) ==
    LET m == [distance |-> distance, angle |-> Angle(0, 0), health |-> 100,
              radius |-> RadiusMoon]
    IN [distance |-> distance, angle |-> m.angle, health |-> m.health,
        radius |-> m.radius, pos |-> calc_position(m, m.angle)]

\* a future_position that leaves the moon at the angle it looked at
future_position_advancing(m, t) ==
    [self |-> [m EXCEPT !.angle = AngleAdd(m.angle, Radians(t))],
     ret |-> calc_position(m, AngleAdd(m.angle, Radians(t)))]

\* Moon.future_position(t): the moon after the call and the value returned
future_position(m, t) ==
    [self |-> m, ret |-> calc_position(m, AngleAdd(m.angle, Radians(t)))]

\* Moon.update_by(t)
update_by(m, t) ==
    LET fp == future_position(m, t)
    IN [fp.self EXCEPT !.pos = fp.ret, !.angle = AngleAdd(fp.self.angle, Turns(t))]

\* Moon.clone()
clone(m) == [Moon(m.distance) EXCEPT !.pos = m.pos, !.angle = m.angle]

\* Moon.take_damage(amount): the moon after the call, and whether the for loop
\* ran out (scene.game = GameOverScreen(scene.game))
RECURSIVE EatFrom(_, _)
EatFrom(m, i) ==
    IF i > Len(moon_eated_states) THEN [moon |-> m, over |-> TRUE]
    ELSE IF m.health > moon_eated_states[i]
         THEN [moon |-> [m EXCEPT !.health = moon_eated_states[i]], over |-> FALSE]
         ELSE EatFrom(m, i + 1)
take_damage(m, amount) == EatFrom(m, 1)

\* --------------------------------------------------------------- Cat
verlet_init(o, initial_v) == [o EXCEPT !.last_pos = VSub(o.pos, initial_v)]
\* a verlet_step that forgets to move last_pos
verlet_step_stale(o, a) ==
    [o EXCEPT !.pos = VAdd(VSub(VScale(2, o.pos), o.last_pos), a)]

verlet_step(o, a) ==
    [o EXCEPT !.last_pos = o.pos,
              !.pos = VAdd(VSub(VScale(2, o.pos), o.last_pos), a)]

\* Cat.__init__(pos, direction, power): direction is a unit vector, given here by
\* any vector that points the same way
Cat(id, pos, direction, power) ==
    verlet_init([id |-> id, pos |-> pos, last_pos |-> pos, dead |-> FALSE, lifetime |-> 0,
                 target |-> 0, attack_speed |-> 0, attack_pos |-> pos],
                Toward(direction, 16 * power))

\* Cat.force_of_gravity(body) * t * t, in sixteenths of a cell; dividing by r * r
\* raises ZeroDivisionError when the cat is at body.pos
force_of_gravity(c, body) ==
    LET d == VSub(Cell(body.pos), c.pos)
        l == Length16(d)
    IN IF l = 0 THEN [err |-> TRUE, x |-> 0, y |-> 0]
       ELSE IF l > 181 THEN [err |-> FALSE, x |-> 0, y |-> 0]   \* less than half a sixteenth
       ELSE [err |-> FALSE,
             x |-> RoundDiv(GRAVITY * 16 * 4096 * d.x, l * l * l),
             y |-> RoundDiv(GRAVITY * 16 * 4096 * d.y, l * l * l)]

\* an update_by in which a cat flies on to a target that is dead
Cat_update_by_loyal(c, t, m, objs) ==
    IF c.target = 0
    THEN LET earth_G == force_of_gravity(c, earth)
             moon_G == force_of_gravity(c, m)
             a == vec2(RoundDiv(earth_G.x + moon_G.x, 16), RoundDiv(earth_G.y + moon_G.y, 16))
             stepped == verlet_step(c, a)
         IN IF earth_G.err \/ moon_G.err THEN [cat |-> c, err |-> TRUE]
            ELSE [cat |-> [stepped EXCEPT !.attack_pos = stepped.pos], err |-> FALSE]
    ELSE LET to_target == Toward(VSub(objs[c.target].pos, c.pos), c.attack_speed * t)
             moved == VAdd(c.pos, to_target)
         IN [cat |-> [c EXCEPT !.pos = moved, !.last_pos = moved], err |-> FALSE]

\* an update_by that keeps a cat with a target under gravity
Cat_update_by_falling(c, t, m, objs) ==
    LET earth_G == force_of_gravity(c, earth)
        moon_G == force_of_gravity(c, m)
        a == vec2(RoundDiv(earth_G.x + moon_G.x, 16), RoundDiv(earth_G.y + moon_G.y, 16))
        stepped == verlet_step(c, a)
    IN IF earth_G.err \/ moon_G.err THEN [cat |-> c, err |-> TRUE]
       ELSE [cat |-> [stepped EXCEPT !.attack_pos = stepped.pos,
                                     !.dead = (c.dead \/ (c.target # 0 /\ objs[c.target].dead))],
             err |-> FALSE]

\* Cat.update_by(t, earth, moon); objs maps a mouse id to its object
Cat_update_by(c, t, m, objs) ==
    IF c.target = 0
    THEN LET earth_G == force_of_gravity(c, earth)
             moon_G == force_of_gravity(c, m)
             a == vec2(RoundDiv(earth_G.x + moon_G.x, 16), RoundDiv(earth_G.y + moon_G.y, 16))
             stepped == verlet_step(c, a)
         IN IF earth_G.err \/ moon_G.err THEN [cat |-> c, err |-> TRUE]
            ELSE [cat |-> [stepped EXCEPT !.attack_pos = stepped.pos], err |-> FALSE]
    ELSE LET to_target == Toward(VSub(objs[c.target].pos, c.pos), c.attack_speed * t)
             moved == VAdd(c.pos, to_target)
         IN [cat |-> [c EXCEPT !.pos = moved, !.last_pos = moved,
                               !.dead = (c.dead \/ objs[c.target].dead)],
             err |-> FALSE]

\* Cat.on_tick
Cat_on_tick(c, m, objs) ==
    Cat_update_by([c EXCEPT !.lifetime = c.lifetime + NOMINAL_STEP], NOMINAL_STEP, m, objs)

\* Cat.mouse_in_attack_range(mouse), at the frame's bacon.timestep
mouse_in_attack_range(c, mouse, dt) ==
    IF c.target = 0
    THEN [c EXCEPT !.target = mouse,
                   !.attack_speed = RoundDiv(Length16(VSub(c.pos, c.last_pos)), dt)]
    ELSE c

\* ------------------------------------------------------------- Mouse
\* the five refinements of time_to_moon in Mouse.on_tick
RECURSIVE Refine(_, _, _, _, _)
Refine(m, pos, time_to_moon, n, calls) ==
    IF n = 0 THEN [moon |-> m, time_to_moon |-> time_to_moon, calls |-> calls]
    ELSE LET fp == future_position(m, time_to_moon)
         IN Refine(fp.self, pos, length(VSub(Cell(fp.ret), pos)) \div MOUSE_SPEED,
                   n - 1, calls + 1)

\* a Mouse.on_tick that stops refining when the estimate no longer changes
Mouse_on_tick_converging(mouse, m, dt) ==
    LET first == Refine(m, mouse.pos, 0, 1, 0)
        r == IF first.time_to_moon = 0 THEN first ELSE Refine(m, mouse.pos, 0, 5, 0)
        fp == future_position(r.moon, r.time_to_moon)
        to_target == Toward(VSub(Cell(fp.ret), mouse.pos), 16 * MOUSE_SPEED * dt)
    IN [mouse |-> [mouse EXCEPT !.pos = VAdd(mouse.pos, to_target)],
        moon |-> fp.self, calls |-> r.calls + 1]

\* Mouse.on_tick: the mouse and the moon after it, and its calls of future_position
Mouse_on_tick(mouse, m, dt) ==
    LET r == Refine(m, mouse.pos, 0, 5, 0)
        fp == future_position(r.moon, r.time_to_moon)
        to_target == Toward(VSub(Cell(fp.ret), mouse.pos), 16 * MOUSE_SPEED * dt)
    IN [mouse |-> [mouse EXCEPT !.pos = VAdd(mouse.pos, to_target)],
        moon |-> fp.self, calls |-> r.calls + 1]

\* ------------------------------------------------------------- state
VARIABLES
    moon,               \* the module-level moon: distance, angle, pos, health, radius
    cats,               \* game.cats, a sequence of Cat objects
    mice,               \* game.mice, a sequence of the ids of Mouse objects
    mouseObj,           \* the Mouse objects ever created, by id: pos, dead
    clouds,             \* game.clouds: life, dead
    score,              \* game.score, in 1/TICKS_PER_SECOND points
    spawn_timer,        \* game.spawn_timer
    mouse_spawn_count,  \* game.mouse_spawn_count
    catapult,           \* the module-level catapult: state, t, end_angle, on_fling
    cooldown,           \* game.cat_spawner.cooldown
    screens,            \* the GameOverScreens wrapped around the game, innermost first;
                        \* scene.game is the last one, or the Game when there is none
    bacon,              \* bacon.timestep, bacon.mouse.left and the pointer, for this frame
    pc,                 \* where the frame is: "frame" between two frames, else the
                        \* statement of update_state that runs next
    steps,              \* update_state calls left in this Game.on_tick
    ticked,             \* the GameOverScreens whose on_tick is running around the game
    ticks,              \* update_state calls so far
    launched,           \* Cat objects created so far
    crashed,            \* an exception left the tick
    plog,               \* what the last collision pass did
    scored,             \* how often each mouse's death was added to the score
    fired,              \* how often take_damage replaced scene.game
    probe,              \* arguments and results of the calls made outside the game
    frames,             \* Game.on_tick calls so far
    limit               \* how far this run is explored: frames, ticks, launches, spawns, draws

vars == <<moon, cats, mice, mouseObj, clouds, score, spawn_timer, mouse_spawn_count,
          catapult, cooldown, screens, bacon, pc, steps, ticked, ticks, launched,
          crashed, plog, scored, fired, probe, frames, limit>>

Idle == "Idle"
Fling == "Fling"
Reset == "Reset"

\* Catapult.__init__: above the earth
catapult_pos == VSub(VSub(earth.pos, vec2(0, earth.radius)), vec2(0, 1))
\* CatSpawner.__init__: catapult.pos - vec2(0, 10), a tenth of a cell
spawner_pos == VSub(catapult_pos, vec2(0, 0))

NoInput == [timestep |-> 0, left |-> FALSE, pointer |-> vec2(0, 0)]
NoFling == [set |-> FALSE, pos |-> vec2(0, 0), direction |-> vec2(0, 0), power |-> 0]
NoLog == [hits |-> 0, fires |-> 0, remarked |-> 0, stale |-> 0, entered_dead |-> 0,
          thuds |-> 0]
NoProbe == [op |-> "none", arg |-> 0, before |-> 0, ret |-> 0]

\* the state after Game() was made by the title screen
InitGame ==
    /\ moon = Moon(MOON_BUILT_DISTANCE)
    /\ cats = << >>
    /\ mice = << >>
    /\ mouseObj = << >>
    /\ clouds = << >>
    /\ score = 0
    /\ spawn_timer = MOUSE_INITIAL_SPAWN_DELAY
    /\ mouse_spawn_count = 0
    /\ catapult = [state |-> Idle, t |-> CATAPULT_FIRE_TIME, end_angle |-> 0, on_fling |-> NoFling]
    /\ cooldown = 0
    /\ screens = << >>
    /\ bacon = NoInput
    /\ pc = "frame"
    /\ steps = 0
    /\ ticked = 0
    /\ ticks = 0
    /\ launched = 0
    /\ crashed = FALSE
    /\ plog = NoLog
    /\ scored = << >>
    /\ fired = 0
    /\ frames = 0

Init ==
    /\ InitGame
    /\ probe = NoProbe
    /\ limit = [frames |-> MaxFrames, ticks |-> MaxTicks, launches |-> MaxLaunches,
                spawns |-> MaxSpawns, draws |-> MaxDraws]

\* ---------------------------------------------- Game.handle_collision
CatBody(c) == Body(c.pos, RadiusCat)
MouseBody(o) == Body(o.pos, RadiusMouse)

\* a planet and moon rule that first moves the cats
CatsAgainstBodies_moving(cs, m) ==
    [i \in 1..Len(cs) |->
        IF collides_with(CatBody(verlet_step(cs[i], vec2(0, 0))), earth)
           \/ collides_with(CatBody(verlet_step(cs[i], vec2(0, 0))), m)
        THEN [verlet_step(cs[i], vec2(0, 0)) EXCEPT !.dead = TRUE]
        ELSE verlet_step(cs[i], vec2(0, 0))]

\* a planet and moon rule that lets the cats fly through the planet and the moon
CatsAgainstBodies_sparing(cs, m) ==
    [i \in 1..Len(cs) |-> cs[i]]

\* for c in self.cats: the planet and moon rule
CatsAgainstBodies(cs, m) ==
    [i \in 1..Len(cs) |->
        IF collides_with(CatBody(cs[i]), earth) \/ collides_with(CatBody(cs[i]), m)
        THEN [cs[i] EXCEPT !.dead = TRUE] ELSE cs[i]]

\* a mouse rule in which the mouse that bites the moon flies on
RECURSIVE MiceAgainstBodies_biting(_, _, _)
MiceAgainstBodies_biting(ids, i, st) ==
    IF i > Len(ids) THEN st
    ELSE LET o == st.objs[ids[i]]
         IN IF collides_with(MouseBody(o), earth)
            THEN MiceAgainstBodies_biting(ids, i + 1,
                    [st EXCEPT !.objs[ids[i]].dead = TRUE])
            ELSE IF collides_with(MouseBody(o), st.moon)
            THEN LET d == take_damage(st.moon, MOUSE_DAMAGE)
                 IN MiceAgainstBodies_biting(ids, i + 1,
                       [st EXCEPT !.moon = d.moon,
                                  !.over = st.over + (IF d.over THEN 1 ELSE 0),
                                  !.hits = st.hits + 1])
            ELSE MiceAgainstBodies_biting(ids, i + 1, st)

\* for m in self.mice: st is [moon, objs, over, hits], over the number of new GameOverScreens
RECURSIVE MiceAgainstBodies(_, _, _)
MiceAgainstBodies(ids, i, st) ==
    IF i > Len(ids) THEN st
    ELSE LET o == st.objs[ids[i]]
         IN IF collides_with(MouseBody(o), earth)
            THEN MiceAgainstBodies(ids, i + 1,
                    [st EXCEPT !.objs[ids[i]].dead = TRUE])
            ELSE IF collides_with(MouseBody(o), st.moon)
            THEN LET d == take_damage(st.moon, MOUSE_DAMAGE)
                 IN MiceAgainstBodies(ids, i + 1,
                       [st EXCEPT !.moon = d.moon,
                                  !.over = st.over + (IF d.over THEN 1 ELSE 0),
                                  !.hits = st.hits + 1,
                                  !.objs[ids[i]].dead = TRUE])
            ELSE MiceAgainstBodies(ids, i + 1, st)

\* a kill that pays for every second the cat has flown
kill_score_uncapped(lifetime) ==
    SCORE_BASE * TICKS_PER_SECOND
    + SCORE_PER_SECOND * (IF lifetime > SCORE_BONUS_DELAY * TICKS_PER_SECOND
                          THEN lifetime - SCORE_BONUS_DELAY * TICKS_PER_SECOND ELSE 0)

\* 5 + 3*clamp(cat.lifetime - 1, 0, 5), in 1/TICKS_PER_SECOND points, of a cat
\* whose lifetime is given in nominal steps
kill_score(lifetime) ==
    SCORE_BASE * TICKS_PER_SECOND
    + SCORE_PER_SECOND * clamp(lifetime - SCORE_BONUS_DELAY * TICKS_PER_SECOND,
                               0, SCORE_BONUS_CAP * TICKS_PER_SECOND)

\* one cat-mouse test; st is [cats, objs, clouds, score, scored, remarked, stale]
CatMouseTest(st, ci, id, dt) ==
    LET c0 == st.cats[ci]
        o == st.objs[id]
        c1 == IF sphere_collides_with(Body(c0.attack_pos, CAT_ATTACK_RANGE), MouseBody(o))
              THEN mouse_in_attack_range(c0, id, dt) ELSE c0
        hit == collides_with(CatBody(c1), MouseBody(o))
        old == c0.dead \/ o.dead
    IN IF hit
       THEN [st EXCEPT !.cats[ci] = [c1 EXCEPT !.dead = TRUE],
                       !.objs[id].dead = TRUE,
                       !.clouds = Append(st.clouds, [life |-> CLOUD_LIFETIME, dead |-> FALSE]),
                       !.score = st.score + kill_score(c1.lifetime),
                       !.scored[id] = st.scored[id] + 1,
                       !.remarked = st.remarked + (IF c0.dead THEN 1 ELSE 0)
                                                + (IF o.dead THEN 1 ELSE 0),
                       !.stale = st.stale + (IF old THEN 1 ELSE 0)]
       ELSE [st EXCEPT !.cats[ci] = c1,
                       !.stale = st.stale + (IF old THEN 1 ELSE 0)]

\* for cat in self.cats: for mouse in self.mice
\* for mouse in self.mice, for the cat ci
RECURSIVE CatAgainstMice(_, _, _, _, _)
CatAgainstMice(ids, ci, mi, st, dt) ==
    IF mi > Len(ids) THEN st
    ELSE CatAgainstMice(ids, ci, mi + 1, CatMouseTest(st, ci, ids[mi], dt), dt)

\* for cat in self.cats, the cats lo..hi in order (the first half, then the second)
RECURSIVE CatsAgainstMice(_, _, _, _, _)
CatsAgainstMice(ids, lo, hi, st, dt) ==
    IF lo > hi \/ hi > Len(st.cats) \/ Len(ids) = 0 THEN st
    ELSE IF lo = hi THEN CatAgainstMice(ids, lo, 1, st, dt)
    ELSE CatsAgainstMice(ids, (lo + hi) \div 2 + 1, hi,
                         CatsAgainstMice(ids, lo, (lo + hi) \div 2, st, dt), dt)


CountDead(cs) == Cardinality({i \in 1..Len(cs) : cs[i].dead})
FreshScreen == [fade_image |-> FALSE, state |-> "fade-in", t |-> 0]
RECURSIVE FreshScreens(_)
FreshScreens(n) == IF n = 0 THEN << >> ELSE <<FreshScreen>> \o FreshScreens(n - 1)

\* Game.handle_collision
HandleCollision ==
    /\ pc = "collide"
    /\ LET cs1 == CatsAgainstBodies(cats, moon)
           st2 == MiceAgainstBodies(mice, 1,
                     [moon |-> moon, objs |-> mouseObj, over |-> 0, hits |-> 0])
           st3 == CatsAgainstMice(mice, 1, Len(cs1),
                     [cats |-> cs1, objs |-> st2.objs, clouds |-> clouds, score |-> score,
                      scored |-> scored,
                      remarked |-> Cardinality({i \in 1..Len(cats) :
                                                  cats[i].dead /\
                                                  (collides_with(CatBody(cats[i]), earth)
                                                   \/ collides_with(CatBody(cats[i]), moon))}),
                      stale |-> 0],
                     bacon.timestep)
           AliveCat(c) == ~c.dead
           AliveMouse(id) == ~st3.objs[id].dead
           AliveCloud(c) == ~c.dead
       IN /\ moon' = st2.moon
          /\ mouseObj' = st3.objs
          /\ cats' = SelectSeq(st3.cats, AliveCat)
          /\ mice' = SelectSeq(mice, AliveMouse)
          /\ clouds' = SelectSeq(st3.clouds, AliveCloud)
          /\ score' = st3.score
          /\ scored' = st3.scored
          /\ screens' = screens \o FreshScreens(st2.over)
          /\ fired' = fired + st2.over
          /\ plog' = [hits |-> st2.hits, fires |-> st2.over, remarked |-> st3.remarked,
                      stale |-> st3.stale,
                      thuds |-> CountDead(cs1) - CountDead(cats),
                      entered_dead |-> CountDead(cats)
                                       + Cardinality({i \in 1..Len(mice) : mouseObj[mice[i]].dead})]
    /\ pc' = "evict"
    /\ UNCHANGED <<spawn_timer, mouse_spawn_count, catapult, cooldown, bacon, steps,
                   ticked, ticks, launched, crashed, probe, frames, limit>>

\* an eviction that drops the ten newest cats
Evict_newest ==
    /\ pc = "evict"
    /\ cats' = IF Len(cats) > MAX_CATS THEN SubSeq(cats, 1, Len(cats) - EVICT_COUNT) ELSE cats
    /\ pc' = "spawn"
    /\ UNCHANGED <<moon, mice, mouseObj, clouds, score, spawn_timer, mouse_spawn_count,
                   catapult, cooldown, screens, bacon, steps, ticked, ticks, launched,
                   crashed, plog, scored, fired, probe, frames, limit>>

\* an eviction that waits for one cat more
Evict_late ==
    /\ pc = "evict"
    /\ cats' = IF Len(cats) > MAX_CATS + 1 THEN SubSeq(cats, EVICT_COUNT + 1, Len(cats)) ELSE cats
    /\ pc' = "spawn"
    /\ UNCHANGED <<moon, mice, mouseObj, clouds, score, spawn_timer, mouse_spawn_count,
                   catapult, cooldown, screens, bacon, steps, ticked, ticks, launched,
                   crashed, plog, scored, fired, probe, frames, limit>>

\* if len(self.cats) > 200: self.cats = self.cats[10:]
Evict ==
    /\ pc = "evict"
    /\ cats' = IF Len(cats) > MAX_CATS THEN SubSeq(cats, EVICT_COUNT + 1, Len(cats)) ELSE cats
    /\ pc' = "spawn"
    /\ UNCHANGED <<moon, mice, mouseObj, clouds, score, spawn_timer, mouse_spawn_count,
                   catapult, cooldown, screens, bacon, steps, ticked, ticks, launched,
                   crashed, plog, scored, fired, probe, frames, limit>>

\* MOUSE_SPAWN_DECREASE: the whole part of 2 * log10(m + 1)
MOUSE_SPAWN_DECREASE(m) ==
    IF m + 1 < 4 THEN 0 ELSE IF m + 1 < 10 THEN 1 ELSE IF m + 1 < 32 THEN 2
    ELSE IF m + 1 < 100 THEN 3 ELSE IF m + 1 < 317 THEN 4 ELSE 5

\* a find_mouse_spawn that measures the left edge by the window's width
find_mouse_spawn_wide(i) ==
    IF i < WINDOW_WIDTH THEN [ok |-> TRUE, pos |-> vec2(i, 0)]
    ELSE IF i - WINDOW_WIDTH < WINDOW_WIDTH
         THEN [ok |-> TRUE, pos |-> vec2(i - WINDOW_WIDTH, WINDOW_HEIGHT)]
    ELSE IF i - 2 * WINDOW_WIDTH < WINDOW_WIDTH
         THEN [ok |-> TRUE, pos |-> vec2(0, i - 2 * WINDOW_WIDTH)]
    ELSE [ok |-> i - 3 * WINDOW_WIDTH < WINDOW_HEIGHT,
          pos |-> vec2(WINDOW_WIDTH, i - 3 * WINDOW_WIDTH)]

\* Game.find_mouse_spawn, for the value i that random.uniform drew; the assertion
\* is the field ok
find_mouse_spawn(i) ==
    IF i < WINDOW_WIDTH THEN [ok |-> TRUE, pos |-> vec2(i, 0)]
    ELSE IF i - WINDOW_WIDTH < WINDOW_WIDTH
         THEN [ok |-> TRUE, pos |-> vec2(i - WINDOW_WIDTH, WINDOW_HEIGHT)]
    ELSE IF i - 2 * WINDOW_WIDTH < WINDOW_HEIGHT
         THEN [ok |-> TRUE, pos |-> vec2(0, i - 2 * WINDOW_WIDTH)]
    ELSE [ok |-> i - 2 * WINDOW_WIDTH - WINDOW_HEIGHT < WINDOW_HEIGHT,
          pos |-> vec2(WINDOW_WIDTH, i - 2 * WINDOW_WIDTH - WINDOW_HEIGHT)]

\* the values of random.uniform that the game specifications draw
SpawnDraws == <<10, 58, 25, 45>>

\* self.spawn_timer -= bacon.timestep, and the spawn of a mouse
SpawnMouse ==
    /\ pc = "spawn"
    /\ IF spawn_timer - bacon.timestep < 0
       THEN /\ mouse_spawn_count < limit.spawns
            /\ \E k \in 1..(IF limit.draws < Len(SpawnDraws) THEN limit.draws ELSE Len(SpawnDraws)) :
                 LET i == SpawnDraws[k] IN
                 /\ find_mouse_spawn(i).ok
                 /\ mouseObj' = Append(mouseObj, [pos |-> find_mouse_spawn(i).pos, dead |-> FALSE])
            /\ spawn_timer' = MOUSE_SPAWN_COOLDOWN - MOUSE_SPAWN_DECREASE(mouse_spawn_count)
            /\ mouse_spawn_count' = mouse_spawn_count + 1
            /\ mice' = Append(mice, mouse_spawn_count + 1)
            /\ scored' = Append(scored, 0)
       ELSE /\ spawn_timer' = spawn_timer - bacon.timestep
            /\ UNCHANGED <<mouse_spawn_count, mice, mouseObj, scored>>
    /\ pc' = "move"
    /\ UNCHANGED <<moon, cats, clouds, score, catapult, cooldown, screens, bacon, steps,
                   ticked, ticks, launched, crashed, plog, fired, probe, frames, limit>>

\* for cat in self.cats: cat.on_tick()
CatsOnTick(cs, m, objs) ==
    [cats |-> [i \in 1..Len(cs) |-> Cat_on_tick(cs[i], m, objs).cat],
     err |-> \E i \in 1..Len(cs) : Cat_on_tick(cs[i], m, objs).err]

\* for mouse in self.mice: mouse.on_tick(); st is [moon, objs]
RECURSIVE MiceOnTick(_, _, _, _)
MiceOnTick(ids, i, st, dt) ==
    IF i > Len(ids) THEN st
    ELSE LET r == Mouse_on_tick(st.objs[ids[i]], st.moon, dt)
         IN MiceOnTick(ids, i + 1, [moon |-> r.moon, objs |-> [st.objs EXCEPT ![ids[i]] = r.mouse]], dt)

\* Cloud.on_tick
Cloud_on_tick(c, dt) == [life |-> c.life - dt, dead |-> (c.dead \/ c.life - dt < 0)]

\* moon.on_tick(), then the cats, the mice and the clouds
MoveEntities ==
    /\ pc = "move"
    /\ LET m1 == update_by(moon, bacon.timestep)
           cr == CatsOnTick(cats, m1, mouseObj)
           mr == MiceOnTick(mice, 1, [moon |-> m1, objs |-> mouseObj], bacon.timestep)
       IN IF cr.err
          THEN /\ crashed' = TRUE
               /\ moon' = m1
               /\ cats' = cr.cats
               /\ pc' = "crashed"
               /\ UNCHANGED <<mouseObj, clouds>>
          ELSE /\ moon' = mr.moon
               /\ cats' = cr.cats
               /\ mouseObj' = mr.objs
               /\ clouds' = [i \in 1..Len(clouds) |-> Cloud_on_tick(clouds[i], bacon.timestep)]
               /\ pc' = "catapult"
               /\ UNCHANGED crashed
    /\ UNCHANGED <<mice, score, spawn_timer, mouse_spawn_count, catapult, cooldown, screens,
                   bacon, steps, ticked, ticks, launched, plog, scored, fired, probe, frames, limit>>

\* ---------------------------------------------------------- Catapult
\* Catapult.get_end_angle: clamp(atan2(direction.x, -direction.y), 0, pi/2), in
\* slots of 30 degrees (tan 15 = 0.268, tan 45 = 1, tan 75 = 3.732)
get_end_angle(direction) ==
    LET dx == direction.x
        u == -direction.y
    IN IF dx < 0 THEN 0
       ELSE IF dx = 0 THEN (IF u >= 0 THEN 0 ELSE 3)
       ELSE IF u <= 0 THEN 3
       ELSE IF 1000 * dx < 268 * u THEN 0
       ELSE IF dx < u THEN 1
       ELSE IF 1000 * dx < 3732 * u THEN 2
       ELSE 3

\* Catapult.get_launch_pos
get_launch_pos(direction) ==
    VAdd(catapult_pos, Cell(rotate(-ArmReach, Angle(get_end_angle(direction), 0))))

\* Catapult.fling
fling(cp, direction, on_fling) ==
    IF cp.state = Idle
    THEN [state |-> Fling, t |-> 0, end_angle |-> get_end_angle(direction), on_fling |-> on_fling]
    ELSE cp

\* a Catapult.on_tick whose arm comes to rest at t = 0
Catapult_on_tick_resting(cp, dt) ==
    IF cp.state = Fling
    THEN LET t == cp.t + dt
         IN IF t >= CATAPULT_FIRE_TIME \/ 4 * t > (cp.end_angle + 1) * CATAPULT_FIRE_TIME
            THEN [catapult |-> [cp EXCEPT !.t = CATAPULT_FIRE_TIME, !.on_fling = NoFling,
                                          !.state = Reset],
                  flung |-> TRUE]
            ELSE [catapult |-> [cp EXCEPT !.t = t], flung |-> FALSE]
    ELSE IF cp.state = Reset
    THEN [catapult |-> [cp EXCEPT !.t = IF cp.t - dt < 0 THEN 0 ELSE cp.t - dt],
          flung |-> FALSE]
    ELSE [catapult |-> cp, flung |-> FALSE]

\* Catapult.on_tick: the catapult after it, and whether it called self.on_fling.
\* t is self.t * CATAPULT_FIRE_TIME, and the angle of the arm in degrees is
\* 120 * self.t - 30: it passed end_angle when 4 * t > (end_angle + 1) * CATAPULT_FIRE_TIME
Catapult_on_tick(cp, dt) ==
    IF cp.state = Fling
    THEN LET t == cp.t + dt
         IN IF t >= CATAPULT_FIRE_TIME \/ 4 * t > (cp.end_angle + 1) * CATAPULT_FIRE_TIME
            THEN [catapult |-> [cp EXCEPT !.t = CATAPULT_FIRE_TIME, !.on_fling = NoFling,
                                          !.state = Reset],
                  flung |-> TRUE]
            ELSE [catapult |-> [cp EXCEPT !.t = t], flung |-> FALSE]
    ELSE IF cp.state = Reset
    THEN [catapult |-> [cp EXCEPT !.t = cp.t - dt,
                                  !.state = IF cp.t - dt < 0 THEN Idle ELSE Reset],
          flung |-> FALSE]
    ELSE [catapult |-> cp, flung |-> FALSE]

\* catapult.on_tick() in Game.update_state; on_fling is the lambda of try_spawn,
\* game.cats.append(Cat(pos, direction, launch_power, rotation))
CatapultTick ==
    /\ pc = "catapult"
    /\ LET r == Catapult_on_tick(catapult, bacon.timestep)
       IN /\ catapult' = r.catapult
          /\ IF r.flung
             THEN /\ cats' = Append(cats, Cat(launched + 1, catapult.on_fling.pos,
                                              catapult.on_fling.direction,
                                              catapult.on_fling.power))
                  /\ launched' = launched + 1
             ELSE UNCHANGED <<cats, launched>>
    /\ pc' = "spawner"
    /\ UNCHANGED <<moon, mice, mouseObj, clouds, score, spawn_timer, mouse_spawn_count,
                   cooldown, screens, bacon, steps, ticked, ticks, crashed, plog, scored,
                   fired, probe, frames, limit>>

\* -------------------------------------------------------- CatSpawner
direction(pointer) == VSub(pointer, spawner_pos)
launch_power(pointer) ==
    POWER_MIN + ((POWER_MAX - POWER_MIN)
                 * (clamp(length(VSub(pointer, spawner_pos)), POWER_NEAR, POWER_FAR) - POWER_NEAR))
                \div (POWER_FAR - POWER_NEAR)

\* CatSpawner.try_spawn: the catapult and the cooldown after it
try_spawn(cp, cd, pointer) ==
    IF cd <= 0
    THEN [catapult |-> fling(cp, direction(pointer),
                             [set |-> TRUE, pos |-> get_launch_pos(direction(pointer)),
                              direction |-> direction(pointer),
                              power |-> launch_power(pointer)]),
          cooldown |-> CAT_SPAWN_COOLDOWN]
    ELSE [catapult |-> cp, cooldown |-> cd]

\* ----------------------------------------------------- GameOverScreen
\* a GameOverScreen that waits before "game over" without counting the time
Screen_on_tick_waiting(sc, dt) ==
    IF sc.state = "fade-in"
    THEN IF sc.t + dt > GAME_OVER_FADE
         THEN [sc EXCEPT !.state = "pre-game-over", !.t = GAME_OVER_AFTERFADE_WAIT]
         ELSE [sc EXCEPT !.t = sc.t + dt]
    ELSE IF sc.state = "pre-game-over"
    THEN IF sc.t <= 0
         THEN [sc EXCEPT !.state = "game-over", !.t = GAME_OVER_FADETEXT]
         ELSE sc
    ELSE IF sc.state \in {"game-over", "game-over-score"}
    THEN LET t == IF sc.t > 0 THEN sc.t - dt ELSE sc.t
         IN IF sc.state = "game-over" /\ t <= 0
            THEN [sc EXCEPT !.state = "game-over-score", !.t = GAME_OVER_FADETEXT]
            ELSE IF sc.state = "game-over-score" /\ t <= 0
            THEN [sc EXCEPT !.state = "leaderboard-display", !.t = t]
            ELSE [sc EXCEPT !.t = t]
    ELSE sc

\* GameOverScreen.on_tick after the first tick's call of self.game.on_tick();
\* t is self.t times the constant it is divided by in its state
Screen_on_tick(sc, dt) ==
    IF sc.state = "fade-in"
    THEN IF sc.t + dt > GAME_OVER_FADE
         THEN [sc EXCEPT !.state = "pre-game-over", !.t = GAME_OVER_AFTERFADE_WAIT]
         ELSE [sc EXCEPT !.t = sc.t + dt]
    ELSE IF sc.state = "pre-game-over"
    THEN IF sc.t - dt <= 0
         THEN [sc EXCEPT !.state = "game-over", !.t = GAME_OVER_FADETEXT]
         ELSE [sc EXCEPT !.t = sc.t - dt]
    ELSE IF sc.state \in {"game-over", "game-over-score"}
    THEN LET t == IF sc.t > 0 THEN sc.t - dt ELSE sc.t
         IN IF sc.state = "game-over" /\ t <= 0
            THEN [sc EXCEPT !.state = "game-over-score", !.t = GAME_OVER_FADETEXT]
            ELSE IF sc.state = "game-over-score" /\ t <= 0
            THEN [sc EXCEPT !.state = "leaderboard-display", !.t = t]
            ELSE [sc EXCEPT !.t = t]
    ELSE sc

\* the screens from..to run the rest of their on_tick
ScreensOnTick(scs, from, to, dt) ==
    [i \in 1..Len(scs) |-> IF from <= i /\ i <= to THEN Screen_on_tick(scs[i], dt) ELSE scs[i]]

\* catapult.on_tick() is done: self.cat_spawner.on_tick(self), then the end of
\* update_state; after the last update_state of the frame Game.on_tick returns to
\* the GameOverScreens that called it
SpawnerTick ==
    /\ pc = "spawner"
    /\ LET r == IF bacon.left THEN try_spawn(catapult, cooldown, bacon.pointer)
                ELSE [catapult |-> catapult, cooldown |-> cooldown]
       IN /\ (r.catapult # catapult) => (launched < limit.launches)
          /\ catapult' = r.catapult
          /\ cooldown' = r.cooldown - bacon.timestep
    /\ ticks' = ticks + 1
    /\ steps' = steps - 1
    /\ IF steps > 1
       THEN /\ pc' = "collide"
            /\ UNCHANGED <<screens, bacon, ticked>>
       ELSE /\ pc' = "frame"
            /\ screens' = ScreensOnTick(screens, 1, ticked, bacon.timestep)
            /\ bacon' = NoInput
            /\ ticked' = 0
    /\ UNCHANGED <<moon, cats, mice, mouseObj, clouds, score, spawn_timer, mouse_spawn_count,
                   launched, crashed, plog, scored, fired, probe, frames, limit>>

\* the positions of the pointer that the game specifications draw
Pointers == {vec2(18, 4), vec2(10, 0)}

\* the lowest screen of the run of new screens that ends with scene.game
RECURSIVE FirstFresh(_, _)
FirstFresh(scs, i) ==
    IF i >= 1 /\ ~scs[i].fade_image THEN FirstFresh(scs, i - 1) ELSE i + 1

\* SceneDispatcher.on_tick: scene.game.on_tick() with the inputs of this frame.  A
\* GameOverScreen ticked for the first time ticks the game it wraps before its own
\* state; the Game runs update_state once, or eight times with the space key down
Frame ==
    /\ pc = "frame"
    /\ \E dt \in TimeSteps, space \in BOOLEAN,
          left \in (IF launched < limit.launches THEN BOOLEAN ELSE {FALSE}) :
       \E pointer \in (IF left THEN Pointers ELSE {vec2(0, 0)}) :
         LET n == Len(screens)
             j == FirstFresh(screens, n)
             seen == [i \in 1..n |-> [screens[i] EXCEPT !.fade_image = TRUE]]
             lo == IF j > 1 THEN j - 1 ELSE 1
         IN IF j = 1
            THEN /\ frames < limit.frames
                 /\ ticks + (IF space THEN FAST_FORWARD_STEPS ELSE 1) <= limit.ticks
                 /\ bacon' = [timestep |-> dt, left |-> left, pointer |-> pointer]
                 /\ steps' = IF space THEN FAST_FORWARD_STEPS ELSE 1
                 /\ ticked' = n
                 /\ screens' = seen
                 /\ frames' = frames + 1
                 /\ pc' = "collide"
            ELSE /\ screens' = ScreensOnTick(seen, lo, n, dt)
                 /\ UNCHANGED <<bacon, steps, ticked, pc, frames>>
    /\ UNCHANGED <<moon, cats, mice, mouseObj, clouds, score, spawn_timer, mouse_spawn_count,
                   catapult, cooldown, ticks, launched, crashed, plog, scored, fired, probe,
                   limit>>

\* Game.on_key(bacon.Keys.w, True), which SceneDispatcher.on_key passes on while
\* scene.game is the Game
KeyW ==
    /\ pc = "frame"
    /\ Len(screens) = 0
    /\ screens' = <<FreshScreen>>
    /\ UNCHANGED <<moon, cats, mice, mouseObj, clouds, score, spawn_timer, mouse_spawn_count,
                   catapult, cooldown, bacon, pc, steps, ticked, ticks, launched, crashed,
                   plog, scored, fired, probe, frames, limit>>

Next ==
    \/ Frame
    \/ KeyW
    \/ HandleCollision
    \/ Evict
    \/ SpawnMouse
    \/ MoveEntities
    \/ CatapultTick
    \/ SpawnerTick

Spec == Init /\ [][Next]_vars

\* the runs in which the player never shoots: the mice reach the moon unopposed
InitSiege ==
    /\ InitGame
    /\ probe = NoProbe
    /\ limit = [frames |-> SiegeFrames, ticks |-> SiegeTicks, launches |-> 0,
                spawns |-> SiegeSpawns, draws |-> SiegeDraws]

SpecSiege == InitSiege /\ [][Next]_vars

\* bacon.run calls scene.on_tick for frame after frame
SpecSiegeFair == InitSiege /\ [][Next]_vars /\ WF_vars(Frame)

\* ------------------------------------------------- the crowded runs
\* a state late in a game: the cats flung so far, CrowdGap ticks apart, fly away
\* from the earth to the right, out of the reach of gravity and of the mice
CoastingCat(id, age) ==
    [Cat(id, get_launch_pos(direction(vec2(18, 4))), direction(vec2(18, 4)),
         launch_power(vec2(18, 4)))
       EXCEPT !.pos = VAdd(@, VScale(age, Toward(direction(vec2(18, 4)), 16 * launch_power(vec2(18, 4))))),
              !.last_pos = VAdd(@, VScale(age, Toward(direction(vec2(18, 4)), 16 * launch_power(vec2(18, 4))))),
              !.attack_pos = VAdd(@, VScale(age, Toward(direction(vec2(18, 4)), 16 * launch_power(vec2(18, 4))))),
              !.lifetime = age * NOMINAL_STEP]

InitCrowd ==
    /\ \E n \in (MAX_CATS - EvictSlack)..MAX_CATS :
         /\ cats = [i \in 1..n |-> CoastingCat(i, CrowdGap * (n - i + 2))]
         /\ launched = n
         /\ limit = [frames |-> CrowdFrames, ticks |-> CrowdTicks, launches |-> n + CrowdLaunches,
                     spawns |-> MaxSpawns, draws |-> SiegeDraws]
    /\ moon = Moon(MOON_BUILT_DISTANCE)
    /\ mice = << >>
    /\ mouseObj = << >>
    /\ clouds = << >>
    /\ score = 0
    /\ spawn_timer = MOUSE_SPAWN_COOLDOWN
    /\ mouse_spawn_count = 0
    /\ catapult = [state |-> Idle, t |-> CATAPULT_FIRE_TIME, end_angle |-> 0, on_fling |-> NoFling]
    /\ cooldown = 0
    /\ screens = << >>
    /\ bacon = NoInput
    /\ pc = "frame"
    /\ steps = 0
    /\ ticked = 0
    /\ ticks = 0
    /\ crashed = FALSE
    /\ plog = NoLog
    /\ scored = << >>
    /\ fired = 0
    /\ frames = 0
    /\ probe = NoProbe

SpecCrowd == InitCrowd /\ [][Next]_vars

\* ------------------------------------------------ the moon by itself
GameVars == <<cats, mice, mouseObj, clouds, score, spawn_timer, mouse_spawn_count, catapult,
              cooldown, screens, bacon, pc, steps, ticked, ticks, launched, crashed, plog,
              scored, fired, frames, limit>>

\* moon.update_by(t), as Moon.on_tick calls it
MoonUpdate ==
    /\ moon.angle.tau < MaxMoonSteps
    /\ \E t \in TimeSteps :
         /\ moon' = update_by(moon, t)
         /\ probe' = [op |-> "update_by", arg |-> t, before |-> moon, ret |-> 0]
    /\ UNCHANGED GameVars

\* moon.future_position(lead)
MoonFuture ==
    /\ \E lead \in 0..MaxLead :
         /\ moon' = future_position(moon, lead).self
         /\ probe' = [op |-> "future_position", arg |-> lead, before |-> moon,
                      ret |-> future_position(moon, lead).ret]
    /\ UNCHANGED GameVars

\* moon.clone()
MoonClone ==
    /\ moon' = moon
    /\ probe' = [op |-> "clone", arg |-> 0, before |-> moon, ret |-> clone(moon)]
    /\ UNCHANGED GameVars

\* f_moon.update_by(dt), on the clone that moon.clone() returned
CloneUpdate ==
    /\ probe.op \in {"clone", "clone.update_by"}
    /\ probe.ret.angle.tau < MaxMoonSteps
    /\ moon' = moon
    /\ probe' = [op |-> "clone.update_by", arg |-> NOMINAL_STEP, before |-> moon,
                 ret |-> update_by(probe.ret, NOMINAL_STEP)]
    /\ UNCHANGED GameVars

\* Mouse.on_tick of a mouse at a corner or at the middle of an edge of the window,
\* at the earth or on the moon's orbit
MouseAim ==
    /\ \E x \in {0, WINDOW_WIDTH \div 2, WINDOW_WIDTH \div 2 + MOON_DISTANCE, WINDOW_WIDTH},
          y \in {0, WINDOW_HEIGHT \div 2, WINDOW_HEIGHT}, dt \in TimeSteps :
         LET r == Mouse_on_tick([pos |-> vec2(x, y), dead |-> FALSE], moon, dt)
         IN /\ moon' = r.moon
            /\ probe' = [op |-> "Mouse.on_tick", arg |-> r.calls, before |-> moon, ret |-> r.mouse]
    /\ UNCHANGED GameVars

NextMoon == MoonUpdate \/ MoonFuture \/ MoonClone \/ CloneUpdate \/ MouseAim

SpecMoon == Init /\ [][NextMoon]_vars

\* ------------------------------------------- collides_with by itself
\* a RoundSprite or a BoundedSphere
Shapes ==
    [kind : {"RoundSprite", "BoundedSphere"}, pos : [x : 0..GeomMax, y : 0..GeomMax],
     radius : 0..GeomMax]

\* a.collides_with(b), by the method of a's class
Collides(a, b) ==
    IF a.kind = "RoundSprite" THEN collides_with(a, b) ELSE sphere_collides_with(a, b)

\* any two shapes, at any places and of any radii
InitGeom ==
    /\ InitGame
    /\ limit = [frames |-> 0, ticks |-> 0, launches |-> 0, spawns |-> 0, draws |-> 0]
    /\ \E a \in Shapes, b \in Shapes :
         probe = [op |-> "shapes", arg |-> <<a, b>>, before |-> 0, ret |-> 0]

\* a.collides_with(b) and b.collides_with(a)
CollidePair ==
    /\ probe.op = "shapes"
    /\ probe' = [op |-> "collides_with", arg |-> probe.arg,
                 before |-> Collides(probe.arg[2], probe.arg[1]),
                 ret |-> Collides(probe.arg[1], probe.arg[2])]
    /\ UNCHANGED moon
    /\ UNCHANGED GameVars

NextGeom == CollidePair

SpecGeom == InitGeom /\ [][NextGeom]_vars

\* ----------------------------------------------- verlet_step by itself
Lattice == [x : (-VerletMax)..VerletMax, y : (-VerletMax)..VerletMax]

\* a body at any place, initialised with any velocity
InitVerlet ==
    /\ InitGame
    /\ limit = [frames |-> 0, ticks |-> 0, launches |-> 0, spawns |-> 0, draws |-> 0]
    /\ \E pos0 \in Lattice, v \in Lattice :
         probe = [op |-> "verlet_init", arg |-> [pos0 |-> pos0, v |-> v, n |-> 0], before |-> 0,
                  ret |-> verlet_init([pos |-> pos0, last_pos |-> pos0], v)]

\* verlet_step(o, 0)
VerletCoast ==
    /\ probe.op \in {"verlet_init", "verlet_step"}
    /\ probe.arg.n < MaxVerletSteps
    /\ probe' = [op |-> "verlet_step", arg |-> [probe.arg EXCEPT !.n = @ + 1], before |-> probe.ret,
                 ret |-> verlet_step(probe.ret, vec2(0, 0))]
    /\ UNCHANGED moon
    /\ UNCHANGED GameVars

NextVerlet == VerletCoast

SpecVerlet == InitVerlet /\ [][NextVerlet]_vars

\* ------------------------------------------ force_of_gravity by itself
\* the earth, and the moon at the twelve slots of its orbit
Bodies ==
    {earth} \cup {[pos |-> calc_position(Moon(MOON_BUILT_DISTANCE), Turns(k)), radius |-> RadiusMoon] :
                    k \in 0..(MOON_SECONDS_PER_ROTATION - 1)}

\* a cat at rest at or near a body
InitGravity ==
    /\ InitGame
    /\ limit = [frames |-> 0, ticks |-> 0, launches |-> 0, spawns |-> 0, draws |-> 0]
    /\ \E body \in Bodies, dx \in (-GravMax)..GravMax, dy \in (-GravMax)..GravMax :
         probe = [op |-> "cat", before |-> 0, ret |-> 0,
                  arg |-> [body |-> body,
                           cat |-> Cat(1, VAdd(Cell(body.pos), vec2(dx, dy)), vec2(0, 0), POWER_MIN)]]

\* cat.force_of_gravity(body), and the cat.update_by that calls it
GravityPull ==
    /\ probe.op = "cat"
    /\ probe' = [op |-> "force_of_gravity", arg |-> probe.arg,
                 before |-> Cat_update_by(probe.arg.cat, NOMINAL_STEP, probe.arg.body, << >>),
                 ret |-> force_of_gravity(probe.arg.cat, probe.arg.body)]
    /\ UNCHANGED moon
    /\ UNCHANGED GameVars

NextGravity == GravityPull

SpecGravity == InitGravity /\ [][NextGravity]_vars

\* ---------------------------------------------- the trajectory preview
\* a turn of the loop that advances the live moon with the clone
PreviewStep_on_live(st) ==
    LET f_moon == update_by(st.f_moon, NOMINAL_STEP)
        r == Cat_update_by(st.cat, NOMINAL_STEP, f_moon, << >>)
        hit == collides_with(CatBody(r.cat), f_moon) \/ collides_with(CatBody(r.cat), earth)
    IN [live |-> update_by(st.live, NOMINAL_STEP), f_moon |-> f_moon, cat |-> r.cat,
        v |-> Append(st.v, st.cat.pos), steps |-> st.steps + 1,
        late |-> st.late + (IF st.hit THEN 1 ELSE 0),
        hit |-> (st.hit \/ (~r.err /\ hit)), err |-> r.err,
        done |-> (r.err \/ hit)]

\* a turn of the loop that does not break at a collision
PreviewStep_no_break(st) ==
    LET f_moon == update_by(st.f_moon, NOMINAL_STEP)
        r == Cat_update_by(st.cat, NOMINAL_STEP, f_moon, << >>)
        hit == collides_with(CatBody(r.cat), f_moon) \/ collides_with(CatBody(r.cat), earth)
    IN [live |-> st.live, f_moon |-> f_moon, cat |-> r.cat,
        v |-> Append(st.v, st.cat.pos), steps |-> st.steps + 1,
        late |-> st.late + (IF st.hit THEN 1 ELSE 0),
        hit |-> (st.hit \/ (~r.err /\ hit)), err |-> r.err,
        done |-> r.err]

\* one turn of the for loop of simulate_launch; st is the live moon, the clone
\* f_moon, the scratch cat, the points v, the steps made, those made after a
\* collision, and whether the loop has ended
PreviewStep(st) ==
    LET f_moon == update_by(st.f_moon, NOMINAL_STEP)
        r == Cat_update_by(st.cat, NOMINAL_STEP, f_moon, << >>)
        hit == collides_with(CatBody(r.cat), f_moon) \/ collides_with(CatBody(r.cat), earth)
    IN [live |-> st.live, f_moon |-> f_moon, cat |-> r.cat,
        v |-> Append(st.v, st.cat.pos), steps |-> st.steps + 1,
        late |-> st.late + (IF st.hit THEN 1 ELSE 0),
        hit |-> (st.hit \/ (~r.err /\ hit)), err |-> r.err,
        done |-> (r.err \/ hit)]

\* for i in range(TOTAL_STEPS)
RECURSIVE PreviewLoop(_)
PreviewLoop(st) ==
    IF st.done \/ st.steps >= TOTAL_STEPS THEN st ELSE PreviewLoop(PreviewStep(st))

\* CatSpawner.simulate_launch, for the live moon m and the pointer
simulate_launch(m, pointer) ==
    PreviewLoop([live |-> m, f_moon |-> clone(m),
                 cat |-> Cat(0, get_launch_pos(direction(pointer)), direction(pointer),
                             launch_power(pointer)),
                 v |-> << >>, steps |-> 0, late |-> 0, hit |-> FALSE, err |-> FALSE,
                 done |-> FALSE])

\* the pointer positions of the previews
PreviewPointers == Pointers \cup {vec2(10, 12), vec2(0, 4), vec2(20, 0)}

\* CatSpawner.draw: self.simulate_launch()
Preview ==
    /\ \E pointer \in PreviewPointers :
         LET r == simulate_launch(moon, pointer)
         IN /\ moon' = r.live
            /\ probe' = [op |-> "simulate_launch", arg |-> pointer, before |-> moon, ret |-> r]
    /\ UNCHANGED GameVars

NextPreview == MoonUpdate \/ Preview

SpecPreview == Init /\ [][NextPreview]_vars

\* ------------------------------------------------- the orbit over time
\* the moon of a new game; probe keeps the time, the tick length and the
\* position of the moon after every tick
InitOrbit ==
    /\ InitGame
    /\ limit = [frames |-> 0, ticks |-> 0, launches |-> 0, spawns |-> 0, draws |-> 0]
    /\ probe = [op |-> "Moon", arg |-> <<0>>, before |-> <<0>>, ret |-> <<moon.pos>>]

\* Moon.on_tick: self.update_by(bacon.timestep)
OrbitTick ==
    /\ probe.op \in {"Moon", "Moon.on_tick"}
    /\ \E t \in TimeSteps :
         /\ probe.arg[Len(probe.arg)] + t <= MaxOrbitTime
         /\ moon' = update_by(moon, t)
         /\ probe' = [op |-> "Moon.on_tick",
                      arg |-> Append(probe.arg, probe.arg[Len(probe.arg)] + t),
                      before |-> Append(probe.before, t),
                      ret |-> Append(probe.ret, update_by(moon, t).pos)]
    /\ UNCHANGED GameVars

NextOrbit == OrbitTick

SpecOrbit == InitOrbit /\ [][NextOrbit]_vars

\* --------------------------------------- find_mouse_spawn by itself
\* the values random.uniform(0, 2*WINDOW_WIDTH + 2*WINDOW_HEIGHT - 1) can draw,
\* as far as they are whole cells
uniform == 0..(2 * WINDOW_WIDTH + 2 * WINDOW_HEIGHT - 1)

InitSpawn ==
    /\ InitGame
    /\ limit = [frames |-> 0, ticks |-> 0, launches |-> 0, spawns |-> 0, draws |-> 0]
    /\ \E i \in uniform :
         probe = [op |-> "uniform", arg |-> i, before |-> 0, ret |-> 0]

\* self.find_mouse_spawn(), for the value drawn
FindMouseSpawn ==
    /\ probe.op = "uniform"
    /\ probe' = [op |-> "find_mouse_spawn", arg |-> probe.arg, before |-> 0,
                 ret |-> find_mouse_spawn(probe.arg)]
    /\ UNCHANGED moon
    /\ UNCHANGED GameVars

NextSpawn == FindMouseSpawn

SpecSpawn == InitSpawn /\ [][NextSpawn]_vars

\* ------------------------------------------------ the catapult by itself
CatapultRest == <<moon, cats, mice, mouseObj, clouds, score, spawn_timer, mouse_spawn_count,
                  cooldown, screens, bacon, pc, steps, ticked, ticks, launched, crashed, plog,
                  scored, fired, frames, limit>>

\* Catapult(): probe.ret counts the calls of self.on_fling since the last fling
\* that the catapult accepted, up to two
InitCatapult ==
    /\ InitGame
    /\ limit = [frames |-> 0, ticks |-> 0, launches |-> 0, spawns |-> 0, draws |-> 0]
    /\ probe = [op |-> "Catapult", arg |-> 0, before |-> Idle, ret |-> 0]

\* catapult.on_tick(), at a positive bacon.timestep
CatapultOnTick ==
    /\ \E dt \in TimeSteps :
         LET r == Catapult_on_tick(catapult, dt)
         IN /\ catapult' = r.catapult
            /\ probe' = [op |-> "on_tick", arg |-> dt, before |-> catapult.state,
                         ret |-> IF r.flung /\ probe.ret < 2 THEN probe.ret + 1 ELSE probe.ret]
    /\ UNCHANGED CatapultRest

\* catapult.fling(direction, on_fling), as try_spawn calls it for a pointer
CatapultFling ==
    /\ \E pointer \in PreviewPointers :
         /\ catapult' = fling(catapult, direction(pointer),
                              [set |-> TRUE, pos |-> get_launch_pos(direction(pointer)),
                               direction |-> direction(pointer),
                               power |-> launch_power(pointer)])
         /\ probe' = [op |-> "fling", arg |-> pointer, before |-> catapult.state,
                      ret |-> IF catapult.state = Idle THEN 0 ELSE probe.ret]
    /\ UNCHANGED CatapultRest

NextCatapult == CatapultOnTick \/ CatapultFling

\* bacon calls on_tick for every frame, so the catapult is ticked again and again
SpecCatapult == InitCatapult /\ [][NextCatapult]_vars /\ WF_vars(CatapultOnTick)

\* ------------------------------------------------------------ claims
\* C1: at the start of every Game.handle_collision pass no cat and no mouse of
\* the lists has its dead flag set: what died in a tick was removed in that tick
C1_NoDeadEntersPass ==
    pc = "collide" =>
        /\ \A i \in 1..Len(cats) : ~cats[i].dead
        /\ \A i \in 1..Len(mice) : ~mouseObj[mice[i]].dead

\* C2: within one handle_collision pass nothing is marked dead twice, no
\* cat-mouse test is made with a cat or a mouse that is already dead, and the
\* death of one mouse is counted in the score at most once
C2_DeadOnceScoredOnce ==
    /\ plog.remarked = 0
    /\ plog.stale = 0
    /\ \A i \in 1..Len(scored) : scored[i] <= 1

\* C3: the moon's pos is calc_position of its angle, after construction, after
\* every update_by, and so is the pos of a clone
C3_PosIsOrbitAtAngle ==
    /\ moon.pos = calc_position(moon, moon.angle)
    /\ probe.op \in {"clone", "clone.update_by"}
         => probe.ret.pos = calc_position(probe.ret, probe.ret.angle)

\* C4: future_position(lead) is the orbit at the angle that update_by reaches
\* when it advances the moon by lead, angle + 2 pi lead / period
C4_FutureIsOrbitAfterLead ==
    probe.op = "future_position" =>
        /\ probe.ret = calc_position(probe.before,
                                     AngleAdd(probe.before.angle, Turns(probe.arg)))
        /\ probe.ret = calc_position(probe.before, update_by(probe.before, probe.arg).angle)

\* C5: a call of future_position, and the six of them that Mouse.on_tick makes,
\* leave the moon's angle, pos and health as they were
C5_FuturePositionPure ==
    probe.op \in {"future_position", "Mouse.on_tick"} =>
        /\ moon.angle = probe.before.angle
        /\ moon.pos = probe.before.pos
        /\ moon.health = probe.before.health

\* C5 happens: a mouse has aimed at a moon that has moved, with its six calls
C5_Witness ==
    /\ probe.op = "Mouse.on_tick"
    /\ probe.arg = 6
    /\ probe.before.angle.tau > 0

\* C6: a collision pass with n mouse-moon collisions lowers the moon's health
\* by n times MOUSE_DAMAGE, and never below zero
C6_EachHitTakesMouseDamage ==
    [][pc = "collide" =>
         /\ moon'.health = moon.health - MOUSE_DAMAGE * plog'.hits
         /\ moon'.health >= 0]_vars

\* C7: in one game the moon is destroyed, and the game replaced by a
\* GameOverScreen, at most once
C7_DestroyedOnce == fired <= 1

\* C8: the eviction check drops nothing from 200 cats or fewer; from more it
\* drops the ten created first and keeps the others in their order, so that
\* 201 cats become the 191 created last
C8_EvictsTenOldest ==
    [][pc = "evict" =>
         IF Len(cats) <= MAX_CATS THEN cats' = cats
         ELSE /\ Len(cats') = Len(cats) - EVICT_COUNT
              /\ \A i \in 1..Len(cats') : cats'[i] = cats[i + EVICT_COUNT]
              /\ \A i \in 1..EVICT_COUNT, j \in 1..Len(cats') : cats[i].id < cats'[j].id
              /\ Len(cats) = 201 => Len(cats') = 191]_vars

\* C8 happens: 201 cats were cut to the 191 created last
C8_Witness ==
    /\ pc = "spawn"
    /\ Len(cats) = MAX_CATS + 1 - EVICT_COUNT
    /\ cats[1].id = EVICT_COUNT + 1
    /\ cats[Len(cats)].id = MAX_CATS + 1

\* C9: there are never more than 201 cats, and right after the eviction check
\* never more than 200
C9_CatsBounded ==
    /\ Len(cats) <= MAX_CATS + 1
    /\ pc = "spawn" => Len(cats) <= MAX_CATS

\* C9 happens: the 201st cat is in the list
C9_Witness == Len(cats) = MAX_CATS + 1

\* C10: a.collides_with(b) = b.collides_with(a), for round sprites and bounded
\* spheres at any two places and of any two radii
C10_CollisionSymmetric ==
    probe.op = "collides_with" => probe.ret = probe.before

\* C10 happens: a sprite and a sphere of different radii that touch
C10_Witness ==
    /\ probe.op = "collides_with"
    /\ probe.arg[1].kind # probe.arg[2].kind
    /\ probe.arg[1].radius # probe.arg[2].radius
    /\ probe.arg[1].pos # probe.arg[2].pos
    /\ probe.ret

\* C11: collides_with is true exactly when the centers are less than the sum of
\* the radii apart: circles that just touch do not collide, closer ones do
C11_ThresholdStrict ==
    probe.op = "collides_with" =>
        LET a == probe.arg[1]
            b == probe.arg[2]
            far == (a.radius + b.radius) * (a.radius + b.radius)
        IN probe.ret <=> (LengthSq(VSub(a.pos, b.pos)) < far)

\* C11 happens: two circles, apart, that just touch, and do not collide
C11_Witness ==
    /\ probe.op = "collides_with"
    /\ probe.arg[1].pos # probe.arg[2].pos
    /\ LengthSq(VSub(probe.arg[1].pos, probe.arg[2].pos))
         = (probe.arg[1].radius + probe.arg[2].radius) * (probe.arg[1].radius + probe.arg[2].radius)
    /\ ~probe.ret

\* C12: every Mouse.on_tick calls future_position six times, five for the
\* refinements and one for the target, wherever the mouse and the moon are
C12_SixCalls ==
    probe.op = "Mouse.on_tick" => probe.arg = 6

\* C12 happens: a mouse whose first estimate is already exact made its six calls
C12_Witness ==
    /\ probe.op = "Mouse.on_tick"
    /\ Refine(probe.before, probe.ret.pos, 0, 1, 0).time_to_moon = 0
    /\ probe.arg = 6

\* C13: after verlet_init(o, v) and n steps of verlet_step(o, 0), pos is
\* pos0 + n v and last_pos is pos0 + (n - 1) v
C13_StraightLine ==
    probe.op \in {"verlet_init", "verlet_step"} =>
        /\ probe.ret.pos = VAdd(probe.arg.pos0, VScale(probe.arg.n, probe.arg.v))
        /\ probe.ret.last_pos = VAdd(probe.arg.pos0, VScale(probe.arg.n - 1, probe.arg.v))

\* C13 happens: a moving body has made three steps
C13_Witness ==
    /\ probe.op = "verlet_step"
    /\ probe.arg.n >= 3
    /\ probe.arg.v # vec2(0, 0)

\* C14: a cat's position after a tick is the same whatever bacon.timestep the
\* frame had: a cat that locks on to a mouse and then makes a tick is at the
\* same place for any two values of the frame delta
C14_FrameRateIndependent ==
    \A i \in 1..Len(cats), j \in 1..Len(mice), d1 \in TimeSteps, d2 \in TimeSteps :
        Cat_on_tick(mouse_in_attack_range(cats[i], mice[j], d1), moon, mouseObj).cat.pos
          = Cat_on_tick(mouse_in_attack_range(cats[i], mice[j], d2), moon, mouseObj).cat.pos

\* C15: force_of_gravity(body) gives a finite force to a cat at any place, the
\* very place of the body included, and the cat's step goes on
C15_GravityDefined ==
    probe.op = "force_of_gravity" => (~probe.ret.err /\ ~probe.before.err)

\* C16: after simulate_launch the moon's angle, pos and health, the cats, the
\* mice, the score and the catapult are what they were before it
C16_PreviewLeavesGame ==
    probe.op = "simulate_launch" =>
        /\ moon.angle = probe.before.angle
        /\ moon.pos = probe.before.pos
        /\ moon.health = probe.before.health
        /\ cats = << >> /\ mice = << >> /\ score = 0
        /\ catapult.state = Idle

\* C16 happens: a preview of a hundred steps was drawn for a moon that had moved
C16_Witness ==
    /\ probe.op = "simulate_launch"
    /\ probe.before.angle.tau > 0
    /\ probe.ret.steps = TOTAL_STEPS
    /\ probe.ret.f_moon.angle # moon.angle

\* C17: simulate_launch makes at most 100 steps, none after the first at whose
\* end the cat collides with the cloned moon or the earth, and records one
\* point a step, at least 1 and at most 100
C17_PreviewBounded ==
    probe.op = "simulate_launch" =>
        /\ probe.ret.steps <= TOTAL_STEPS
        /\ probe.ret.late = 0
        /\ Len(probe.ret.v) = probe.ret.steps
        /\ Len(probe.ret.v) >= 1
        /\ Len(probe.ret.v) <= 100

\* C17 happens: a preview ended early, at a collision
C17_Witness ==
    /\ probe.op = "simulate_launch"
    /\ probe.ret.hit
    /\ probe.ret.steps < TOTAL_STEPS

\* C18: at every time of a game, the start included, the moon is where it was
\* one period before, when the ticks of that period were of equal length
C18_OrbitPeriodic ==
    probe.op \in {"Moon", "Moon.on_tick"} =>
        \A i \in 1..Len(probe.arg), j \in 1..Len(probe.arg) :
            (/\ probe.arg[j] - probe.arg[i] = MOON_SECONDS_PER_ROTATION
             /\ \A k \in (i + 1)..j : probe.before[k] = probe.before[j])
              => probe.ret[j] = probe.ret[i]

\* C19: in every tick the collision pass comes first and moves nothing, what it
\* leaves in the lists is alive, and the moon, the cats and the mice move only
\* in the movement that follows the pass, the eviction and the spawn
C19_CollideBeforeMove ==
    [][/\ pc = "collide" =>
             /\ pc' = "evict"
             /\ \A i \in 1..Len(cats') : ~cats'[i].dead
             /\ \A i \in 1..Len(mice') : ~mouseObj'[mice'[i]].dead
       /\ pc' = "evict" => pc = "collide"
       /\ pc' = "spawn" => pc = "evict"
       /\ pc' = "move" => pc = "spawn"
       /\ pc # "move" =>
             /\ moon'.pos = moon.pos /\ moon'.angle = moon.angle
             /\ \A i \in 1..Len(cats') : \A j \in 1..Len(cats) :
                    cats[j].id = cats'[i].id => cats[j].pos = cats'[i].pos
             /\ \A i \in 1..Len(mice') :
                    mice'[i] \in DOMAIN mouseObj => mouseObj'[mice'[i]].pos = mouseObj[mice'[i]].pos]_vars

\* C19 happens: a pass that a mouse hit the moon in is over, and a cat and
\* a mouse are about to move
C19_Witness ==
    /\ pc = "move"
    /\ plog.hits > 0
    /\ Len(cats) > 0
    /\ Len(mice) > 0

\* C20: a mouse or a cat is added to its list only after the movement of its
\* tick, by the catapult or the spawner, so what is added is not moved in the
\* tick it is added in
C20_AddedAfterMove ==
    [][(Len(mice') > Len(mice) \/ Len(cats') > Len(cats)) => pc \in {"catapult", "spawner"}]_vars

\* C21: a cat that overlaps the planet or the moon in a collision pass is gone
\* from game.cats after that pass; moon.health changes and a GameOverScreen is
\* made by a pass only when a mouse that misses the planet overlaps the moon, and
\* moon.health changes in no other step
C21_CatsLeaveMoonAlone ==
    [][/\ pc = "collide" =>
             /\ \A i \in 1..Len(cats) :
                    (collides_with(CatBody(cats[i]), earth) \/ collides_with(CatBody(cats[i]), moon))
                    => \A k \in 1..Len(cats') : cats'[k].id # cats[i].id
             /\ (\A j \in 1..Len(mice) :
                    collides_with(MouseBody(mouseObj[mice[j]]), earth)
                    \/ ~collides_with(MouseBody(mouseObj[mice[j]]), moon))
                => (moon' = moon /\ screens' = screens /\ fired' = fired)
       /\ pc # "collide" => (moon'.health = moon.health /\ fired' = fired)]_vars

\* C21 happens: a pass is over in which a cat hit the planet or the moon and no
\* mouse hit the moon
C21_Witness ==
    /\ pc = "evict"
    /\ plog.thuds > 0
    /\ plog.hits = 0

\* C22: in a collision pass a mouse that overlaps the planet is marked dead and
\* calls no take_damage; a mouse that overlaps the moon and not the planet calls
\* take_damage exactly once and is marked dead; both are gone from game.mice
\* after the pass, so that no mouse damages the moon twice
C22_OneBitePerMouse ==
    [][pc = "collide" =>
          /\ plog'.hits = Cardinality({j \in 1..Len(mice) :
                              /\ ~collides_with(MouseBody(mouseObj[mice[j]]), earth)
                              /\ collides_with(MouseBody(mouseObj[mice[j]]), moon)})
          /\ \A j \in 1..Len(mice) :
                (collides_with(MouseBody(mouseObj[mice[j]]), earth)
                 \/ collides_with(MouseBody(mouseObj[mice[j]]), moon))
                => /\ mouseObj'[mice[j]].dead
                   /\ \A k \in 1..Len(mice') : mice'[k] # mice[j]
          /\ \A j \in 1..Len(mice') : \E k \in 1..Len(mice) : mice[k] = mice'[j]]_vars

\* C22 happens: a pass is over in which a mouse bit the moon, and another mouse
\* is still on its way
C22_Witness ==
    /\ pc = "evict"
    /\ plog.hits > 0
    /\ Len(mice) > 0

\* C23: a cat's target, once set, is never changed or cleared; a cat gets its
\* target only in a collision pass, when it has none, and the target is the
\* first mouse of game.mice that its attack sphere overlaps; a cat with a
\* target moves straight toward it, without gravity and without a Verlet step
C23_LockIsPermanent ==
    [][\A i \in 1..Len(cats') : \A j \in 1..Len(cats) :
          cats'[i].id = cats[j].id =>
             /\ cats[j].target # 0 => cats'[i].target = cats[j].target
             /\ (cats[j].target = 0 /\ cats'[i].target # 0) =>
                   /\ pc = "collide"
                   /\ \E k \in 1..Len(mice) :
                         /\ mice[k] = cats'[i].target
                         /\ sphere_collides_with(Body(cats[j].attack_pos, CAT_ATTACK_RANGE),
                                                 MouseBody(mouseObj[mice[k]]))
                         /\ \A h \in 1..(k - 1) :
                               ~sphere_collides_with(Body(cats[j].attack_pos, CAT_ATTACK_RANGE),
                                                     MouseBody(mouseObj[mice[h]]))
             /\ (pc = "move" /\ cats[j].target # 0) =>
                   /\ cats'[i].pos = VAdd(cats[j].pos,
                                          Toward(VSub(mouseObj[cats[j].target].pos, cats[j].pos),
                                                 cats[j].attack_speed * NOMINAL_STEP))
                   /\ cats'[i].last_pos = cats'[i].pos]_vars

\* C23 happens: a living cat with a target has just moved, while another mouse
\* is in the game
C23_Witness ==
    /\ pc = "catapult"
    /\ \E i \in 1..Len(cats) :
          /\ cats[i].target # 0
          /\ ~cats[i].dead
          /\ cats[i].lifetime > NOMINAL_STEP
          /\ \E k \in 1..Len(mice) : mice[k] # cats[i].target

\* C24: a collision pass adds to the score, for every cat and mouse whose
\* bodies overlap in it, 5 + 3*clamp(cat.lifetime - 1, 0, 5) points, and both are
\* marked dead and leave their lists; the score changes in no other step and
\* never decreases, and a kill is worth between 5 and 20 points: 5 in the cat's
\* first second, 3 more for each second after it, 20 from the sixth second on
C24_ScorePerKill ==
    [][/\ score' >= score
       /\ score' # score => pc = "collide"
       /\ pc = "collide" =>
             LET n == Len(cats)
                 m == Len(mice)
                 cat(k) == cats[((k - 1) \div m) + 1]
                 mouse(k) == mice[((k - 1) % m) + 1]
                 hit(k) == collides_with(CatBody(cat(k)), MouseBody(mouseObj[mouse(k)]))
                 total[k \in 0..(n * m)] ==
                     IF k = 0 THEN 0
                     ELSE total[k - 1]
                          + (IF hit(k)
                             THEN (SCORE_BASE * TICKS_PER_SECOND
                                   + SCORE_PER_SECOND
                                     * clamp(cat(k).lifetime - SCORE_BONUS_DELAY * TICKS_PER_SECOND,
                                             0, SCORE_BONUS_CAP * TICKS_PER_SECOND))
                             ELSE 0)
             IN /\ score' - score = total[n * m]
                /\ \A k \in 1..(n * m) :
                      hit(k) => /\ mouseObj'[mouse(k)].dead
                                /\ \A h \in 1..Len(mice') : mice'[h] # mouse(k)
                                /\ \A h \in 1..Len(cats') : cats'[h].id # cat(k).id
       /\ score' # score =>
             \A life \in 0..MaxLifetime :
                /\ kill_score(life) >= SCORE_BASE * TICKS_PER_SECOND
                /\ kill_score(life) <= (SCORE_BASE + SCORE_PER_SECOND * SCORE_BONUS_CAP)
                                       * TICKS_PER_SECOND
                /\ life <= SCORE_BONUS_DELAY * TICKS_PER_SECOND
                      => kill_score(life) = SCORE_BASE * TICKS_PER_SECOND
                /\ (life >= SCORE_BONUS_DELAY * TICKS_PER_SECOND
                    /\ life <= (SCORE_BONUS_DELAY + SCORE_BONUS_CAP) * TICKS_PER_SECOND)
                      => kill_score(life) = SCORE_BASE * TICKS_PER_SECOND
                                            + SCORE_PER_SECOND
                                              * (life - SCORE_BONUS_DELAY * TICKS_PER_SECOND)
                /\ life >= (SCORE_BONUS_DELAY + SCORE_BONUS_CAP) * TICKS_PER_SECOND
                      => kill_score(life) = (SCORE_BASE + SCORE_PER_SECOND * SCORE_BONUS_CAP)
                                            * TICKS_PER_SECOND]_vars

\* C24 happens: a pass is over in which a cat that had flown for some steps
\* killed a mouse and the score grew
C24_Witness ==
    /\ pc = "evict"
    /\ score > 0
    /\ Len(clouds) > 0
    /\ \E id \in DOMAIN scored : scored[id] > 0 /\ mouseObj[id].dead

\* C25: for every value drawn, find_mouse_spawn passes its assertion and returns
\* a point of the window's edge: on the top or the bottom edge with
\* 0 <= x < WINDOW_WIDTH, or on the left or the right edge with
\* 0 <= y < WINDOW_HEIGHT
C25_SpawnOnEdge ==
    probe.op = "find_mouse_spawn" =>
       /\ probe.ret.ok
       /\ \/ /\ probe.ret.pos.y \in {0, WINDOW_HEIGHT}
             /\ 0 <= probe.ret.pos.x /\ probe.ret.pos.x < WINDOW_WIDTH
          \/ /\ probe.ret.pos.x \in {0, WINDOW_WIDTH}
             /\ 0 <= probe.ret.pos.y /\ probe.ret.pos.y < WINDOW_HEIGHT

\* C25 happens: the largest value was drawn, and the point returned for it is
\* on the right edge
C25_Witness ==
    /\ probe.op = "find_mouse_spawn"
    /\ probe.arg = 2 * WINDOW_WIDTH + 2 * WINDOW_HEIGHT - 1
    /\ probe.ret.pos.x = WINDOW_WIDTH

\* C26: the moon is always as far from earth.pos as the distance it was
\* constructed with, and so is what clone() returns
C26_OrbitRadiusAsBuilt ==
    /\ moon.pos.dist = moon.distance
    /\ probe.op \in {"clone", "clone.update_by"} => probe.ret.pos.dist = probe.ret.distance

\* C27: every try_spawn that finds the cooldown expired, and resets it, is
\* accepted by catapult.fling: the catapult was Idle and is in Fling after it,
\* so the cooldown never expires while the catapult is in Fling or Reset
C27_NoLaunchLost ==
    [][(pc = "spawner" /\ bacon.left /\ cooldown <= 0) =>
          (catapult.state = Idle /\ catapult'.state = Fling)]_vars

\* C28: the catapult goes from Idle to Fling, from Fling to Reset and from Reset
\* to Idle and makes no other change of state; fling changes nothing when the
\* catapult is not Idle; on_fling is called once for an accepted fling, in the
\* tick that takes the catapult from Fling to Reset; and ticked again and again
\* at a positive timestep, a catapult in Fling comes to Reset and a catapult in
\* Reset comes to Idle
C28_CatapultCycle ==
    /\ [][/\ catapult'.state # catapult.state =>
                <<catapult.state, catapult'.state>>
                   \in {<<Idle, Fling>>, <<Fling, Reset>>, <<Reset, Idle>>}
          /\ (probe'.op = "fling" /\ catapult.state # Idle) => catapult' = catapult
          /\ (probe'.op = "fling" /\ catapult.state = Idle) =>
                (catapult'.state = Fling /\ catapult'.on_fling.set)
          /\ probe'.ret # probe.ret =>
                \/ probe'.op = "fling" /\ catapult.state = Idle
                \/ /\ probe'.op = "on_tick"
                   /\ catapult.state = Fling /\ catapult'.state = Reset
                   /\ probe'.ret = probe.ret + 1
          /\ catapult'.state = Fling => probe'.ret = 0
          /\ catapult'.state = Reset => probe'.ret = 1]_vars
    /\ (catapult.state = Fling ~> catapult.state = Reset)
    /\ (catapult.state = Reset ~> catapult.state = Idle)

\* C28 happens: the catapult is Idle again after a fling, and its on_fling was
\* called
C28_Witness ==
    /\ catapult.state = Idle
    /\ probe.op = "on_tick"
    /\ probe.before = Reset
    /\ probe.ret = 1

\* C29: a cat whose target is marked dead, in whatever way and be it before the
\* cat chose it, is marked dead by its next update_by, so that after the
\* movement of a tick every cat with a dead target is dead; and the collision
\* pass that follows removes it, so that after a pass no cat in game.cats is dead
C29_CatDiesWithTarget ==
    /\ pc \in {"catapult", "spawner", "collide", "frame"} =>
          \A i \in 1..Len(cats) :
             (cats[i].target # 0 /\ mouseObj[cats[i].target].dead) => cats[i].dead
    /\ pc \in {"evict", "spawn", "move"} =>
          \A i \in 1..Len(cats) : ~cats[i].dead

\* C29 happens: a cat has just moved toward a mouse that was already dead, and
\* is dead itself, while it had not hit that mouse
C29_Witness ==
    /\ pc = "catapult"
    /\ \E i \in 1..Len(cats) :
          /\ cats[i].target # 0
          /\ mouseObj[cats[i].target].dead
          /\ cats[i].dead
          /\ scored[cats[i].target] = 0

\* C30: the state of a GameOverScreen stays or moves to the next of fade-in,
\* pre-game-over, game-over, game-over-score, leaderboard-display, and
\* leaderboard-display is never left; a screen ticks what it wraps only in its
\* first on_tick; and a GameOverScreen that has been ticked and stays scene.game
\* while frame follows frame comes to leaderboard-display
C30_ScreenRunsToLeaderboard ==
    /\ [][/\ Len(screens') >= Len(screens)
          /\ \A i \in 1..Len(screens) :
                \/ screens'[i].state = screens[i].state
                \/ <<screens[i].state, screens'[i].state>>
                      \in {<<"fade-in", "pre-game-over">>, <<"pre-game-over", "game-over">>,
                           <<"game-over", "game-over-score">>,
                           <<"game-over-score", "leaderboard-display">>}
          /\ (pc = "frame" /\ pc' = "collide") =>
                \A i \in 1..Len(screens) : ~screens[i].fade_image]_vars
    /\ \A n \in 1..MaxScreens :
          (/\ []<>(pc = "frame")
           /\ <>[](Len(screens) = n /\ screens[n].fade_image))
          => <>(Len(screens) = n /\ screens[n].state = "leaderboard-display")

\* C30 happens: the moon was destroyed, and the GameOverScreen that is scene.game
\* shows the leaderboard
C30_Witness ==
    /\ pc = "frame"
    /\ fired > 0
    /\ screens[Len(screens)].state = "leaderboard-display"

====
